---- MODULE Spec2Model ----
(***************************************************************************)
(* The albums screen of rmpc (src/ui/screens/albums.rs) and the key        *)
(* configuration it is driven by (src/config/mod.rs).                      *)
(*                                                                         *)
(* Strings are sequences of one-character strings, so that the substring   *)
(* match of the filter is computed and not assumed.  Sequences are 1-based:*)
(* a selection of NoSel (0) is the source's None, i means index i-1.       *)
(*                                                                         *)
(* One step of the model is one whole call of before_show or               *)
(* handle_action, with every request it sends and every reply it gets; the *)
(* server's library changes between calls (DbUpdate).                      *)
(***************************************************************************)
EXTENDS Integers, Sequences, FiniteSets, TLC

VARIABLES
    stack,              \* AlbumsScreen.stack: [levels, filter, next]
    position,           \* AlbumsScreen.position: CurrentPosition
    filter_input_mode,  \* AlbumsScreen.filter_input_mode
    status_message,     \* SharedUiState.status_message
    library,            \* what the server holds: [albums, titles]
    requests,           \* the requests the last call sent, in order
    keybinds,           \* State.config.keybinds: the scope tables
    key_file,           \* KeyConfigFile: per scope the bindings as written
    key_configs,        \* the KeyConfig values built from key_file so far
    config_file,        \* ConfigFile: the configuration as read, but its keybinds
    config,             \* what Config::try_from(config_file) returned, if called
    last                \* the last call: what it was and what it returned

vars ==
    <<stack, position, filter_input_mode, status_message, library, requests, keybinds,
      key_file, key_configs, config_file, config, last>>

-----------------------------------------------------------------------------
(* Bounds *)

\* how many times a KeyConfig is built from one KeyConfigFile
MaxConstructions == 2
\* the largest status_update_interval_ms a configuration file is read with
MaxIntervalMs == 120
\* a hash table of up to this many entries is walked in every order, a
\* larger one in one order and in its reverse
MaxPermuted == 3

\* the longest filter string a user types
MaxFilterLen == 1

\* the height of the list area the renderer last drew
ViewportHeight == 4

-----------------------------------------------------------------------------
(* Strings *)

Str_j == <<"j">>
Str_x == <<"x">>
Str_jx == <<"j", "x">>
Str_xj == <<"x", "j">>
EmptyString == <<>>

\* case-sensitive substring match
Contains(text, sub) ==
    \E i \in 0..(Len(text) - Len(sub)) : SubSeq(text, i + 1, i + Len(sub)) = sub

-----------------------------------------------------------------------------
(* The server *)

\* The libraries the server may hold: nothing, or three albums.  An album maps
\* to its titles in server order.
Lib0 == [albums |-> <<>>, titles |-> [a \in {} |-> <<>>]]
Lib1 == [albums |-> <<Str_j, Str_xj, Str_x>>,
         titles |-> (Str_j :> <<Str_x, Str_jx>>) @@ (Str_xj :> <<Str_j>>) @@ (Str_x :> <<>>)]
Libraries == {Lib0, Lib1}

Filter(tag, value) == [tag |-> tag, value |-> value]

ListTagRequest(tag, filters) == [verb |-> "list", tag |-> tag, filters |-> filters]
FindRequest(filters) == [verb |-> "find", tag |-> "", filters |-> filters]
FindAddRequest(filters) == [verb |-> "findadd", tag |-> "", filters |-> filters]

FilterValue(filters, tag) ==
    LET hits == {i \in 1..Len(filters) : filters[i].tag = tag}
    IN  IF hits = {} THEN <<"*">> ELSE filters[CHOOSE i \in hits : TRUE].value

\* what the library lists for a tag under the filters
Listing(lib, tag, filters) ==
    IF tag = "album" THEN lib.albums
    ELSE LET a == FilterValue(filters, "album")
         IN  IF a \in DOMAIN lib.titles THEN lib.titles[a] ELSE <<>>

\* the songs of the library that match the filters (title and album)
Matching(lib, filters) ==
    LET t == FilterValue(filters, "title")
        a == FilterValue(filters, "album")
    IN  IF a \in DOMAIN lib.titles /\ \E i \in 1..Len(lib.titles[a]) : lib.titles[a][i] = t
        THEN <<[title |-> t, album |-> a]>>
        ELSE <<>>

\* A reply: the request failed (transport or ACK), or it was answered with
\* nothing, or with a list.
ReplyErr == [kind |-> "Err", val |-> <<>>]
ReplyNone == [kind |-> "None", val |-> <<>>]
ReplySome(v) == [kind |-> "Some", val |-> v]
ReplyOk == [kind |-> "Ok", val |-> <<>>]

Answers(v) == IF v = <<>> THEN {ReplyNone, ReplySome(<<>>)} ELSE {ReplySome(v)}

\* Client::list_tag, Client::find, Client::find_add: Result<Option<..>>
list_tag(lib, tag, filters) == {ReplyErr} \cup Answers(Listing(lib, tag, filters))
find(lib, filters) == {ReplyErr} \cup Answers(Matching(lib, filters))
find_add(lib, filters) == {ReplyErr, ReplyOk}

-----------------------------------------------------------------------------
(* DirStack<StringOrSong>: the navigation stack (ui/screens/dirstack.rs)    *)

NoSel == 0
NoFilter == [some |-> FALSE, text |-> EmptyString]
SomeFilter(t) == [some |-> TRUE, text |-> t]

\* StringOrSong::Dir(name), StringOrSong::Song(title)
Dir(name) == [kind |-> "Dir", value |-> name]
Song(title) == [kind |-> "Song", value |-> title]
to_current_value(entry) == entry.value

MapSeq(s, Op(_)) == [i \in 1..Len(s) |-> Op(s[i])]

NewLevel(entries) == [items |-> entries, sel |-> IF entries = <<>> THEN NoSel ELSE 1]

\* DirStack::new(root): one level, no filter, an empty prefetch slot
DirStack_new(root) == [levels |-> <<NewLevel(root)>>, filter |-> NoFilter, next |-> <<>>]

Depth(st) == Len(st.levels)
\* DirStack::current(): the top level's entries and its selection state
current(st) == st.levels[Depth(st)]
get_selected(level) == level.sel

\* push(entries): a new top level, selection on the first item, filter cleared
DirStack_push(st, entries) ==
    [st EXCEPT !.levels = Append(@, NewLevel(entries)), !.filter = NoFilter]

\* pop(): removes the top level if more than one level remains
DirStack_pop(st) ==
    IF Depth(st) > 1 THEN [st EXCEPT !.levels = SubSeq(@, 1, Depth(st) - 1)] ELSE st

Clamp(i, n) == IF i < 1 THEN 1 ELSE IF i > n THEN n ELSE i

SetSel(st, i) == [st EXCEPT !.levels[Depth(st)].sel = i]

\* move(delta): the selection shifted by delta, clamped to the level
DirStack_move(st, delta) ==
    LET lv == current(st)
    IN  IF lv.sel = NoSel THEN st ELSE SetSel(st, Clamp(lv.sel + delta, Len(lv.items)))

HalfViewport == ViewportHeight \div 2

DirStack_next(st) == DirStack_move(st, 1)
DirStack_prev(st) == DirStack_move(st, -1)
DirStack_next_half_viewport(st) == DirStack_move(st, HalfViewport)
DirStack_prev_half_viewport(st) == DirStack_move(st, -HalfViewport)
DirStack_first(st) == IF current(st).sel = NoSel THEN st ELSE SetSel(st, 1)
DirStack_last(st) == IF current(st).sel = NoSel THEN st ELSE SetSel(st, Len(current(st).items))

\* the entry's display text contains the filter
Matches(entry, filter) == Contains(entry.value, filter.text)

\* the index k places after (dir = 1) or before (dir = -1) index i, cyclically
Cyclic(i, k, n, dir) == ((i - 1 + dir * k + n * n) % n) + 1

\* the next (dir = 1) or previous (dir = -1) entry matching the filter,
\* cyclically from the selection; the selection stays when nothing else matches
Jump(st, dir) ==
    LET lv == current(st)
        n == Len(lv.items)
    IN  IF ~st.filter.some \/ lv.sel = NoSel THEN st
        ELSE LET ks == {k \in 1..n : Matches(lv.items[Cyclic(lv.sel, k, n, dir)], st.filter)}
             IN  IF ks = {} THEN st
                 ELSE SetSel(st, Cyclic(lv.sel, CHOOSE k \in ks : \A m \in ks : k <= m, n, dir))

DirStack_jump_forward(st) == Jump(st, 1)
DirStack_jump_back(st) == Jump(st, -1)

-----------------------------------------------------------------------------
(* CurrentPosition *)

NoAlbum == <<"-">>
\* CurrentPosition::Album(Position { values: Album })
PositionAlbum == [scope |-> "Album", album |-> NoAlbum]
\* CurrentPosition::Song(Position { values: Song { album } })
PositionSong(album) == [scope |-> "Song", album |-> album]
CurrentPosition_default == PositionAlbum

\* Position<Album>::next(album), Position<Album>::prev()
Album_next(pos, album) == PositionSong(album)
Album_prev(pos) == PositionAlbum
\* the album is taken out of the old value and not put into the new one
Song_next_forgets(pos) == PositionSong(EmptyString)
\* Position<Song>::next(): the album is moved out of the old value into the new
Song_next(pos) == PositionSong(pos.album)
Song_prev(pos) == PositionAlbum

\* what a fetch gives: its result, the value when Ok, the requests it sent
Outcome(kind, val, reqs) == [kind |-> kind, val |-> val, reqs |-> reqs]

\* Position<Album>::fetch(client, value): the titles of the album, as songs
Album_fetch(lib, value) ==
    LET filters == <<Filter("album", value)>>
    IN  { IF r.kind = "Err" THEN Outcome("Err", <<>>, <<ListTagRequest("title", filters)>>)
          ELSE Outcome("Ok", MapSeq(r.val, Song), <<ListTagRequest("title", filters)>>)
          : r \in list_tag(lib, "title", filters) }

\* the filters of a song with the album first
SongFilters_album_first(pos, value) == <<Filter("album", pos.album), Filter("title", value)>>
SongFilters(pos, value) == <<Filter("title", value), Filter("album", pos.album)>>

\* Position<Song>::fetch(client, value): the first song found; res[0] of an
\* empty list is an index out of bounds, which aborts the process
Song_fetch(pos, lib, value) ==
    LET filters == SongFilters(pos, value)
    IN  { IF r.kind = "Err" THEN Outcome("Err", <<>>, <<FindRequest(filters)>>)
          ELSE IF r.val = <<>> THEN Outcome("Panic", <<>>, <<FindRequest(filters)>>)
          ELSE Outcome("Ok", r.val[1], <<FindRequest(filters)>>)
          : r \in find(lib, filters) }

\* Position<Song>::add_to_queue(client, value)
Song_add_to_queue(pos, lib, value) ==
    LET filters == SongFilters(pos, value)
    IN  { Outcome(r.kind, <<>>, <<FindAddRequest(filters)>>) : r \in find_add(lib, filters) }

-----------------------------------------------------------------------------
(* Preview items *)

ListItem(tag, value) == [tag |-> tag, value |-> value]

\* Vec<StringOrSong>::to_listitems: one item per entry
Entries_to_listitems(entries) == MapSeq(entries, LAMBDA e : ListItem(e.kind, e.value))
\* MpdSong::to_listitems: the song's fields
MpdSong_to_listitems(song) == <<ListItem("title", song.title), ListItem("album", song.album)>>

ExpectedSelected == "Expected an item to be selected"
ServerError == "request failed"

\* prepare_preview that indexes the level without looking for a selection
prepare_preview_unchecked(st, pos, lib) ==
    LET idx == get_selected(current(st))
    IN  IF idx = NoSel THEN {Outcome("Panic", <<>>, <<>>)}
        ELSE LET cur == to_current_value(current(st).items[idx])
             IN  IF pos.scope = "Album"
                 THEN { IF o.kind = "Ok"
                        THEN Outcome("Ok", Entries_to_listitems(o.val), o.reqs)
                        ELSE o : o \in Album_fetch(lib, cur) }
                 ELSE { IF o.kind = "Ok"
                        THEN Outcome("Ok", MpdSong_to_listitems(o.val), o.reqs)
                        ELSE o : o \in Song_fetch(pos, lib, cur) }

\* AlbumsScreen::prepare_preview: the items for the selected entry under the
\* position, or the error; kinds: Ok, Err (server), NoItem, Panic
prepare_preview(st, pos, lib) ==
    LET idx == get_selected(current(st))
    IN  IF idx = NoSel THEN {Outcome("NoItem", <<>>, <<>>)}
        ELSE LET cur == to_current_value(current(st).items[idx])
             IN  IF pos.scope = "Album"
                 THEN { IF o.kind = "Ok"
                        THEN Outcome("Ok", Entries_to_listitems(o.val), o.reqs)
                        ELSE o : o \in Album_fetch(lib, cur) }
                 ELSE { IF o.kind = "Ok"
                        THEN Outcome("Ok", MpdSong_to_listitems(o.val), o.reqs)
                        ELSE o : o \in Song_fetch(pos, lib, cur) }

-----------------------------------------------------------------------------
(* Key configuration (config/mod.rs) *)

Key(kind, c, modifiers) == [kind |-> kind, c |-> c, modifiers |-> modifiers]
Char(c, modifiers) == Key("Char", c, modifiers)

\* the variants of CommonAction that handle_action of the albums screen
\* matches (its match is exhaustive)
CommonAction ==
    {"DownHalf", "UpHalf", "Up", "Down", "Bottom", "Top", "Right", "Left",
     "EnterSearch", "NextResult", "PreviousResult"}

\* AlbumsActions is an enum without variants
AlbumsActions == {}

\* KeyConfigFile::default().navigation, for the actions of CommonAction
DefaultNavigation ==
    [a \in CommonAction |->
        CASE a = "Up" -> <<Char("k", "NONE")>>
          [] a = "Down" -> <<Char("j", "NONE")>>
          [] a = "Right" -> <<Char("l", "NONE")>>
          [] a = "Left" -> <<Char("h", "NONE")>>
          [] a = "DownHalf" -> <<Char("d", "CONTROL")>>
          [] a = "UpHalf" -> <<Char("u", "CONTROL")>>
          [] a = "Bottom" -> <<Char("G", "SHIFT")>>
          [] a = "Top" -> <<Char("g", "NONE")>>
          [] a = "EnterSearch" -> <<Char("/", "NONE")>>
          [] a = "NextResult" -> <<Char("n", "CONTROL")>>
          [] a = "PreviousResult" -> <<Char("N", "SHIFT")>>]

\* KeyConfigFile::default().albums
DefaultAlbums == [a \in AlbumsActions |-> <<>>]

Range(s) == {s[i] : i \in 1..Len(s)}

\* an invert_map that takes the first key of every action only
invert_map_first_key(v, order) ==
    LET first(a) == IF v[a] = <<>> THEN {} ELSE {v[a][1]}
        keys == UNION {first(a) : a \in DOMAIN v}
        pos(k) == CHOOSE i \in 1..Len(order) :
                     /\ k \in first(order[i])
                     /\ \A j \in 1..Len(order) : k \in first(order[j]) => j <= i
    IN  [k \in keys |-> order[pos(k)]]

\* invert_map(v): every listed key maps to an action; the map is walked in
\* the order `order` of its hash table and a later pair replaces an earlier one
invert_map(v, order) ==
    LET keys == UNION {Range(v[a]) : a \in DOMAIN v}
        pos(k) == CHOOSE i \in 1..Len(order) :
                     /\ k \in Range(v[order[i]])
                     /\ \A j \in 1..Len(order) : k \in Range(v[order[j]]) => j <= i
    IN  [k \in keys |-> order[pos(k)]]

\* an iteration order of a hash table and its reverse
RECURSIVE SomeOrder(_)
SomeOrder(S) ==
    IF S = {} THEN <<>> ELSE LET x == CHOOSE y \in S : TRUE IN <<x>> \o SomeOrder(S \ {x})
Reverse(q) == [i \in 1..Len(q) |-> q[Len(q) + 1 - i]]
IterationOrders(S) == {SomeOrder(S), Reverse(SomeOrder(S))}

\* KeyConfig::from(KeyConfigFile): the tables the albums screen consults
KeyConfigs ==
    { [navigation |-> invert_map(DefaultNavigation, q), albums |-> invert_map(DefaultAlbums, <<>>)]
      : q \in IterationOrders(CommonAction) }

\* the scopes of KeyConfigFile
Scopes ==
    {"global", "navigation", "albums", "artists", "directories", "playlists", "logs", "queue"}

\* one entry of a scope as written: (action, vec![keys])
Binding(action, keys) == [action |-> action, keys |-> keys]
NoBindings == [s \in Scopes |-> <<>>]

\* the default file with Quit of the global scope on k, the key of Up
KeyConfigFile_default_quit_on_k ==
    [s \in Scopes |->
        CASE s = "global" -> <<Binding("Quit", <<Char("k", "NONE")>>)>>
          [] s = "navigation" -> <<Binding("Up", <<Char("k", "NONE")>>)>>
          [] OTHER -> <<>>]

\* KeyConfigFile::default(): every scope in the order it is written
KeyConfigFile_default ==
    [s \in Scopes |->
        CASE s = "global" ->
               << Binding("Quit", <<Char("q", "NONE")>>),
                  Binding("NextTrack", <<Char(">", "NONE")>>),
                  Binding("PreviousTrack", <<Char("<", "NONE")>>),
                  Binding("Stop", <<Char("s", "NONE")>>),
                  Binding("ToggleRepeat", <<Char("z", "NONE")>>),
                  Binding("ToggleRandom", <<Char("x", "NONE")>>),
                  Binding("ToggleSingle", <<Char("c", "NONE")>>),
                  Binding("TogglePause", <<Char("p", "NONE")>>),
                  Binding("SeekForward", <<Char("f", "NONE")>>),
                  Binding("SeekBack", <<Char("b", "NONE")>>),
                  Binding("VolumeDown", <<Char(",", "NONE")>>),
                  Binding("VolumeUp", <<Char(".", "NONE")>>),
                  Binding("NextTab", <<Key("Right", "", "NONE")>>),
                  Binding("PreviousTab", <<Key("Left", "", "NONE")>>),
                  Binding("ToggleConsume", <<Char("v", "NONE")>>) >>
          [] s = "navigation" ->
               << Binding("Up", <<Char("k", "NONE")>>),
                  Binding("Down", <<Char("j", "NONE")>>),
                  Binding("MoveUp", <<Char("K", "SHIFT")>>),
                  Binding("MoveDown", <<Char("J", "SHIFT")>>),
                  Binding("Right", <<Char("l", "NONE")>>),
                  Binding("Left", <<Char("h", "NONE")>>),
                  Binding("DownHalf", <<Char("d", "CONTROL")>>),
                  Binding("UpHalf", <<Char("u", "CONTROL")>>),
                  Binding("Bottom", <<Char("G", "SHIFT")>>),
                  Binding("Top", <<Char("g", "NONE")>>),
                  Binding("EnterSearch", <<Char("/", "NONE")>>),
                  Binding("NextResult", <<Char("n", "CONTROL")>>),
                  Binding("PreviousResult", <<Char("N", "SHIFT")>>),
                  Binding("Select", <<Char(" ", "NONE")>>),
                  Binding("Add", <<Char("a", "NONE")>>),
                  Binding("Delete", <<Char("D", "SHIFT")>>),
                  Binding("Rename", <<Char("r", "NONE")>>),
                  Binding("Close", <<Char("c", "CONTROL"), Key("Esc", "", "NONE")>>),
                  Binding("Confirm", <<Key("Enter", "", "NONE")>>),
                  Binding("FocusInput", <<Char("i", "NONE")>>) >>
          [] s = "logs" -> << Binding("Clear", <<Char("D", "SHIFT")>>) >>
          [] s = "queue" ->
               << Binding("Delete", <<Char("d", "NONE")>>),
                  Binding("DeleteAll", <<Char("D", "SHIFT")>>),
                  Binding("Play", <<Key("Enter", "", "NONE")>>),
                  Binding("Save", <<Char("s", "CONTROL")>>),
                  Binding("AddToPlaylist", <<Char("a", "NONE")>>) >>
          [] OTHER -> <<>>]

\* HashMap::from(bindings): the map from each action to its keys
ActionsOf(bindings) == {bindings[i].action : i \in 1..Len(bindings)}
HashMapOf(bindings) ==
    [a \in ActionsOf(bindings) |->
        LET i == CHOOSE i \in 1..Len(bindings) :
                    /\ bindings[i].action = a
                    /\ \A j \in 1..Len(bindings) : bindings[j].action = a => j <= i
        IN  bindings[i].keys]

\* the orders in which a hash table with the keys S may be walked
Orderings(S) == {q \in [1..Cardinality(S) -> S] : \A i, j \in DOMAIN q : q[i] = q[j] => i = j}
HashOrders(S) == IF Cardinality(S) <= MaxPermuted THEN Orderings(S) ELSE IterationOrders(S)

\* the table of one scope of `file`, its hash table walked in any order
ScopeTables(file, s) ==
    {invert_map(HashMapOf(file[s]), q) : q \in HashOrders(ActionsOf(file[s]))}

\* the configurations a user writes: three navigation actions over two keys
UserKeyLists ==
    {<<>>, <<Char("k", "NONE")>>, <<Char("j", "NONE")>>,
     <<Char("k", "NONE"), Char("j", "NONE")>>, <<Char("j", "NONE"), Char("k", "NONE")>>}
UserActions == {"Up", "Down", "Right"}
UserBindings ==
    UNION { { [i \in 1..Len(q) |-> Binding(q[i], keys[q[i]])]
              : keys \in [A -> UserKeyLists], q \in Orderings(A) }
            : A \in SUBSET UserActions }
\* the files the configuration is read from
KeyConfigFiles ==
    {KeyConfigFile_default} \cup {[NoBindings EXCEPT !["navigation"] = b] : b \in UserBindings}

\* Option<u64>
NoInterval == [some |-> FALSE, v |-> 0]
SomeInterval(v) == [some |-> TRUE, v |-> v]
\* the lowest status_update_interval_ms of a Config
MinIntervalMs == 100
DefaultIntervalMs == 1000
DefaultVolumeStep == 5
MaxU8 == 255

\* ConfigFile but its keybinds; ui_valid: whether UiConfigFile converts
ConfigFile(address, volume_step, interval, ui_valid) ==
    [address |-> address, volume_step |-> volume_step,
     status_update_interval_ms |-> interval, ui_valid |-> ui_valid]
\* ConfigFile::default()
ConfigFile_default ==
    ConfigFile("127.0.0.1:6600", DefaultVolumeStep, SomeInterval(DefaultIntervalMs), TRUE)
\* the files the configuration is read from
ConfigFiles ==
    {ConfigFile(a, step, i, ui) :
        a \in {"127.0.0.1:6600", "mpd.local:6601"},
        step \in {0, DefaultVolumeStep, MaxU8},
        i \in {NoInterval} \cup {SomeInterval(v) : v \in 0..MaxIntervalMs},
        ui \in BOOLEAN}

Max(a, b) == IF a >= b THEN a ELSE b
Min(a, b) == IF a <= b THEN a ELSE b
\* a conversion that bounds the interval from above
status_update_interval_ms_at_most(interval) ==
    IF interval.some THEN SomeInterval(Min(interval.v, MinIntervalMs)) ELSE NoInterval
\* value.status_update_interval_ms.map(|v| v.max(100))
status_update_interval_ms(interval) ==
    IF interval.some THEN SomeInterval(Max(interval.v, MinIntervalMs)) ELSE NoInterval

\* no conversion was made yet; a conversion that failed; a Config
NoConfig == [kind |-> "None"]
ConfigErr == [kind |-> "Err"]
Config(address, volume_step, interval, keys) ==
    [kind |-> "Ok", address |-> address, volume_step |-> volume_step,
     status_update_interval_ms |-> interval, keybinds |-> keys]

\* value.keybinds.into(): the KeyConfig values `file` may give
KeyConfigsOf(file) ==
    {[s \in Scopes |-> t[s]] : t \in
        {[global |-> g, navigation |-> n, albums |-> al, artists |-> ar,
          directories |-> d, playlists |-> p, logs |-> l, queue |-> q] :
            g \in ScopeTables(file, "global"), n \in ScopeTables(file, "navigation"),
            al \in ScopeTables(file, "albums"), ar \in ScopeTables(file, "artists"),
            d \in ScopeTables(file, "directories"), p \in ScopeTables(file, "playlists"),
            l \in ScopeTables(file, "logs"), q \in ScopeTables(file, "queue")}}

\* the key events of the model
Enter == Key("Enter", "", "NONE")
Esc == Key("Esc", "", "NONE")
Backspace == Key("Backspace", "", "NONE")
Tab == Key("Tab", "", "NONE")
KeyEvents ==
    UNION {Range(DefaultNavigation[a]) : a \in CommonAction}
        \cup {Char("x", "NONE"), Enter, Esc, Backspace, Tab}
\* the keys pressed while the filter is being typed
FilterKeyEvents == {Char("j", "NONE"), Char("x", "NONE"), Char("d", "CONTROL"), Enter, Esc, Backspace, Tab}

-----------------------------------------------------------------------------
(* AlbumsScreen *)

NoKey == Key("", "", "")
NoMessage == [text |-> "", title |-> EmptyString, album |-> EmptyString]
NoAlbumsFound == [text |-> "No albums found!", title |-> EmptyString, album |-> EmptyString]
AddedToQueue(title, album) == [text |-> "added to queue", title |-> title, album |-> album]

\* a call that descended: Right at Album scope that returned RenderRequested
Descended(call) == call.action = "Right" /\ call.scope = "Album" /\ call.result = "RenderRequested"

\* the record of a call: the operation, its key event and resolved action,
\* the filter input mode and the scope it was made in, what it returned, and
\* whether the call before it descended
Call(op, event, action, result, error) ==
    [op |-> op, event |-> event, action |-> action, mode |-> filter_input_mode,
     scope |-> position.scope, result |-> result, error |-> error,
     after_descend |-> Descended(last)]

Returns(op, event, action, result, error) == last' = Call(op, event, action, result, error)

Running == last.result # "Panic"

ResultOf(kind) ==
    CASE kind = "Ok" -> "RenderRequested"
      [] kind = "Panic" -> "Panic"
      [] OTHER -> "Err"
ErrorOf(kind) ==
    CASE kind = "NoItem" -> ExpectedSelected
      [] kind = "Err" -> ServerError
      [] OTHER -> ""

\* The tail of an action: prepare_preview on the stack and position the
\* action has made, its value stored in stack.next when `assign`.
Preview(op, event, action, st1, pos1, msg1, reqs, assign) ==
    \E o \in prepare_preview(st1, pos1, library) :
        /\ stack' = IF o.kind = "Ok" /\ assign THEN [st1 EXCEPT !.next = o.val] ELSE st1
        /\ position' = pos1
        /\ status_message' = msg1
        /\ requests' = reqs \o o.reqs
        /\ Returns(op, event, action, IF op = "before_show" /\ o.kind = "Ok" THEN "Ok" ELSE ResultOf(o.kind),
                   ErrorOf(o.kind))
        /\ UNCHANGED <<filter_input_mode, library, keybinds, key_file, key_configs, config_file, config>>

\* an action that returns without a request
Plain(event, action, st1, mode1, result) ==
    /\ stack' = st1
    /\ filter_input_mode' = mode1
    /\ requests' = <<>>
    /\ Returns("handle_action", event, action, result, "")
    /\ UNCHANGED <<position, status_message, library, keybinds, key_file, key_configs, config_file, config>>

\* an action that fails before it changed anything
Fails(event, action, reqs, error) ==
    /\ requests' = reqs
    /\ Returns("handle_action", event, action, "Err", error)
    /\ UNCHANGED <<stack, position, filter_input_mode, status_message, library, keybinds, key_file, key_configs, config_file, config>>

\* AlbumsScreen::default()
Init ==
    /\ stack = DirStack_new(<<>>)
    /\ position = PositionAlbum
    /\ filter_input_mode = FALSE
    /\ status_message = NoMessage
    /\ library \in Libraries
    /\ requests = <<>>
    /\ keybinds \in KeyConfigs
    /\ key_file = KeyConfigFile_default
    /\ key_configs = <<>>
    /\ config_file = ConfigFile_default
    /\ config = NoConfig
    /\ last = [op |-> "init", event |-> NoKey, action |-> "", mode |-> FALSE,
               scope |-> "Album", result |-> "Ok", error |-> "", after_descend |-> FALSE]

\* before_show that rebuilds the stack and keeps the position
before_show_keeps_position ==
    /\ Running
    /\ \E r \in list_tag(library, "album", <<>>) :
        LET req == <<ListTagRequest("album", <<>>)>>
        IN  CASE r.kind = "Err" ->
                   /\ requests' = req
                   /\ Returns("before_show", NoKey, "", "Err", ServerError)
                   /\ UNCHANGED <<stack, position, filter_input_mode, status_message, library, keybinds, key_file, key_configs, config_file, config>>
              [] r.kind = "Some" ->
                   Preview("before_show", NoKey, "", DirStack_new(MapSeq(r.val, Dir)),
                           position, status_message, req, TRUE)
              [] OTHER ->
                   /\ status_message' = NoAlbumsFound
                   /\ requests' = req
                   /\ Returns("before_show", NoKey, "", "Ok", "")
                   /\ UNCHANGED <<stack, position, filter_input_mode, library, keybinds, key_file, key_configs, config_file, config>>

\* AlbumsScreen::before_show
before_show ==
    /\ Running
    /\ \E r \in list_tag(library, "album", <<>>) :
        LET req == <<ListTagRequest("album", <<>>)>>
        IN  CASE r.kind = "Err" ->
                   /\ requests' = req
                   /\ Returns("before_show", NoKey, "", "Err", ServerError)
                   /\ UNCHANGED <<stack, position, filter_input_mode, status_message, library, keybinds, key_file, key_configs, config_file, config>>
              [] r.kind = "Some" ->
                   Preview("before_show", NoKey, "", DirStack_new(MapSeq(r.val, Dir)),
                           CurrentPosition_default, status_message, req, TRUE)
              [] OTHER ->
                   /\ status_message' = NoAlbumsFound
                   /\ requests' = req
                   /\ Returns("before_show", NoKey, "", "Ok", "")
                   /\ UNCHANGED <<stack, position, filter_input_mode, library, keybinds, key_file, key_configs, config_file, config>>

\* handle_action, filter input mode: KeyCode::Char(c)
FilterChar(event) ==
    Plain(event, "",
          IF stack.filter.some THEN [stack EXCEPT !.filter.text = Append(@, event.c)] ELSE stack,
          filter_input_mode, "RenderRequested")

\* KeyCode::Backspace
FilterBackspace(event) ==
    Plain(event, "",
          IF stack.filter.some /\ stack.filter.text # <<>>
          THEN [stack EXCEPT !.filter.text = SubSeq(@, 1, Len(@) - 1)] ELSE stack,
          filter_input_mode, "RenderRequested")

\* KeyCode::Enter
FilterEnter(event) == Plain(event, "", DirStack_jump_forward(stack), FALSE, "RenderRequested")

\* Esc that leaves the mode and keeps the filter
FilterEsc_keeps_filter(event) == Plain(event, "", stack, FALSE, "RenderRequested")
\* KeyCode::Esc
FilterEsc(event) == Plain(event, "", [stack EXCEPT !.filter = NoFilter], FALSE, "RenderRequested")

\* any other key code
FilterOther(event) == Plain(event, "", stack, filter_input_mode, "SkipRender")

FilterInput(event) ==
    CASE event.kind = "Char" -> Len(stack.filter.text) < MaxFilterLen /\ FilterChar(event)
      [] event.kind = "Backspace" -> FilterBackspace(event)
      [] event.kind = "Enter" -> FilterEnter(event)
      [] event.kind = "Esc" -> FilterEsc(event)
      [] OTHER -> FilterOther(event)

\* a key of the albums table: every action of it skips the render
AlbumsAction(event) == Plain(event, "", stack, filter_input_mode, "SkipRender")

DownHalf(event) ==
    Preview("handle_action", event, "DownHalf", DirStack_next_half_viewport(stack), position,
            status_message, <<>>, TRUE)
UpHalf(event) ==
    Preview("handle_action", event, "UpHalf", DirStack_prev_half_viewport(stack), position,
            status_message, <<>>, TRUE)
Up(event) ==
    Preview("handle_action", event, "Up", DirStack_prev(stack), position, status_message, <<>>, TRUE)
Down(event) ==
    Preview("handle_action", event, "Down", DirStack_next(stack), position, status_message, <<>>, TRUE)
\* Bottom and Top call prepare_preview and drop its value
Bottom(event) ==
    Preview("handle_action", event, "Bottom", DirStack_last(stack), position, status_message, <<>>, FALSE)
Top(event) ==
    Preview("handle_action", event, "Top", DirStack_first(stack), position, status_message, <<>>, FALSE)

\* Right at Album scope: fetch the titles, push them, move to Song scope
RightAtAlbum(event, cur) ==
    \E f \in Album_fetch(library, cur) :
        IF f.kind = "Err" THEN Fails(event, "Right", f.reqs, ServerError)
        ELSE Preview("handle_action", event, "Right", DirStack_push(stack, f.val),
                     Album_next(position, cur), status_message, f.reqs, TRUE)

\* Right at Song scope that pushes a level as Right at Album scope does
RightAtSong_pushes(event, cur) ==
    \E q \in Song_add_to_queue(position, library, cur) :
        IF q.kind = "Err" THEN Fails(event, "Right", q.reqs, ServerError)
        ELSE Preview("handle_action", event, "Right", DirStack_push(stack, <<>>), Song_next(position),
                     AddedToQueue(cur, position.album), q.reqs, TRUE)
\* Right at Song scope that announces the song before the enqueue is answered
RightAtSong_announces_first(event, cur) ==
    \E q \in Song_add_to_queue(position, library, cur) :
        IF q.kind = "Err"
        THEN /\ status_message' = AddedToQueue(cur, position.album)
             /\ requests' = q.reqs
             /\ Returns("handle_action", event, "Right", "Err", ServerError)
             /\ UNCHANGED <<stack, position, filter_input_mode, library, keybinds, key_file, key_configs, config_file, config>>
        ELSE Preview("handle_action", event, "Right", stack, Song_next(position),
                     AddedToQueue(cur, position.album), q.reqs, TRUE)
\* Right at Song scope: enqueue the song, stay
RightAtSong(event, cur) ==
    \E q \in Song_add_to_queue(position, library, cur) :
        IF q.kind = "Err" THEN Fails(event, "Right", q.reqs, ServerError)
        ELSE Preview("handle_action", event, "Right", stack, Song_next(position),
                     AddedToQueue(cur, position.album), q.reqs, TRUE)

Right(event) ==
    LET idx == get_selected(current(stack))
    IN  IF idx = NoSel THEN Fails(event, "Right", <<>>, ExpectedSelected)
        ELSE IF position.scope = "Album"
             THEN RightAtAlbum(event, to_current_value(current(stack).items[idx]))
             ELSE RightAtSong(event, to_current_value(current(stack).items[idx]))

\* Left that pops and keeps the position
Left_keeps_position(event) ==
    Preview("handle_action", event, "Left", DirStack_pop(stack), position, status_message, <<>>, TRUE)
\* Left that drops the preview it prepared
Left_drops_preview(event) ==
    Preview("handle_action", event, "Left", DirStack_pop(stack),
            IF position.scope = "Album" THEN Album_prev(position) ELSE Song_prev(position),
            status_message, <<>>, FALSE)
Left(event) ==
    Preview("handle_action", event, "Left", DirStack_pop(stack),
            IF position.scope = "Album" THEN Album_prev(position) ELSE Song_prev(position),
            status_message, <<>>, TRUE)

EnterSearch(event) ==
    Plain(event, "EnterSearch", [stack EXCEPT !.filter = SomeFilter(EmptyString)], TRUE, "RenderRequested")
NextResult(event) ==
    Plain(event, "NextResult", DirStack_jump_forward(stack), filter_input_mode, "RenderRequested")
PreviousResult(event) ==
    Plain(event, "PreviousResult", DirStack_jump_back(stack), filter_input_mode, "RenderRequested")

NavigationAction(event, action) ==
    CASE action = "DownHalf" -> DownHalf(event)
      [] action = "UpHalf" -> UpHalf(event)
      [] action = "Up" -> Up(event)
      [] action = "Down" -> Down(event)
      [] action = "Bottom" -> Bottom(event)
      [] action = "Top" -> Top(event)
      [] action = "Right" -> Right(event)
      [] action = "Left" -> Left(event)
      [] action = "EnterSearch" -> EnterSearch(event)
      [] action = "NextResult" -> NextResult(event)
      [] action = "PreviousResult" -> PreviousResult(event)

\* an unbound key swallowed by the screen
NotHandled_swallows(event) == Plain(event, "", stack, filter_input_mode, "SkipRender")
\* no table of the screen binds the key
NotHandled(event) == Plain(event, "", stack, filter_input_mode, "KeyNotHandled")

\* AlbumsScreen::handle_action
handle_action(event) ==
    /\ Running
    /\ IF filter_input_mode THEN event \in FilterKeyEvents /\ FilterInput(event)
       ELSE IF event \in DOMAIN keybinds.albums THEN AlbumsAction(event)
       ELSE IF event \in DOMAIN keybinds.navigation
            THEN NavigationAction(event, keybinds.navigation[event])
       ELSE NotHandled(event)

\* the server's database is updated between two calls
DbUpdate ==
    /\ Running
    /\ library' \in Libraries \ {library}
    /\ requests' = <<>>
    /\ Returns("db_update", NoKey, "", "Ok", "")
    /\ UNCHANGED <<stack, position, filter_input_mode, status_message, keybinds, key_file, key_configs, config_file, config>>

Next ==
    \/ before_show
    \/ \E event \in KeyEvents : handle_action(event)
    \/ DbUpdate

Spec == Init /\ [][Next]_vars

-----------------------------------------------------------------------------
(* Building the key tables (config/mod.rs) *)

\* the configuration file is read; no key table is built yet
InitKeys ==
    /\ stack = DirStack_new(<<>>)
    /\ position = PositionAlbum
    /\ filter_input_mode = FALSE
    /\ status_message = NoMessage
    /\ library = Lib0
    /\ requests = <<>>
    /\ keybinds = [navigation |-> invert_map(DefaultNavigation, SomeOrder(CommonAction)),
                   albums |-> invert_map(DefaultAlbums, <<>>)]
    /\ key_file \in KeyConfigFiles
    /\ key_configs = <<>>
    /\ config_file = ConfigFile_default
    /\ config = NoConfig
    /\ last = [op |-> "init", event |-> NoKey, action |-> "", mode |-> FALSE,
               scope |-> "Album", result |-> "Ok", error |-> "", after_descend |-> FALSE]

\* KeyConfig::from(KeyConfigFile): invert_map on each of the eight scopes
KeyConfig_from ==
    /\ Len(key_configs) < MaxConstructions
    /\ \E global \in ScopeTables(key_file, "global"),
          navigation \in ScopeTables(key_file, "navigation"),
          albums \in ScopeTables(key_file, "albums"),
          artists \in ScopeTables(key_file, "artists"),
          directories \in ScopeTables(key_file, "directories"),
          playlists \in ScopeTables(key_file, "playlists"),
          logs \in ScopeTables(key_file, "logs"),
          queue \in ScopeTables(key_file, "queue") :
            key_configs' = Append(key_configs,
                [global |-> global, navigation |-> navigation, albums |-> albums,
                 artists |-> artists, directories |-> directories,
                 playlists |-> playlists, logs |-> logs, queue |-> queue])
    /\ UNCHANGED <<stack, position, filter_input_mode, status_message, library, requests,
                   keybinds, key_file, config_file, config, last>>

NextKeys == KeyConfig_from

SpecKeys == InitKeys /\ [][NextKeys]_vars

-----------------------------------------------------------------------------
(* Properties *)

Levels(st) == st.levels
HasSelection(st) == get_selected(current(st)) # NoSel
SelectedValue(st) == to_current_value(current(st).items[get_selected(current(st))])
Bound(event) == event \in DOMAIN keybinds.albums \cup DOMAIN keybinds.navigation

\* a step that is a call of handle_action with filter input mode off
KeyStep == last'.op = "handle_action" /\ ~filter_input_mode

\* C1: with filter input mode off a key of the albums table takes its albums
\* action, otherwise a key of the navigation table runs its navigation
\* action, otherwise handle_action returns KeyNotHandled and changes nothing
\* of the screen.
C1_ResolutionOrder ==
    [][KeyStep =>
        LET e == last'.event
        IN  /\ e \in DOMAIN keybinds.albums =>
                 last'.action = "" /\ last'.result = "SkipRender"
            /\ e \notin DOMAIN keybinds.albums /\ e \in DOMAIN keybinds.navigation =>
                 last'.action = keybinds.navigation[e] /\ last'.result # "KeyNotHandled"
            /\ ~Bound(e) =>
                 /\ last'.action = "" /\ last'.result = "KeyNotHandled"
                 /\ UNCHANGED <<stack, position, filter_input_mode, status_message>>
                 /\ requests' = <<>>]_vars

C1_Witness ==
    /\ last.op = "handle_action" /\ ~last.mode
    /\ last.event = Char("x", "NONE") /\ last.result = "KeyNotHandled"
    /\ Depth(stack) = 2

\* C2: in every reachable state, also after a call that returned an error or
\* aborted, the position is Album exactly when the stack has one level and
\* Song exactly when it has two.
C2_PositionInStep ==
    /\ position.scope = "Album" <=> Depth(stack) = 1
    /\ position.scope = "Song" <=> Depth(stack) = 2

C2_Witness ==
    /\ last.action = "Right" /\ last.scope = "Album" /\ last.result = "Err"
    /\ position.scope = "Song" /\ Depth(stack) = 2

\* C3: Right at Song scope on a selected entry sends exactly one enqueue
\* request, its filters (title = the selected entry, album = the chosen
\* album) in that order, pushes no level and leaves the position at Song with
\* the same album.
C3_RightAtSong ==
    [][(KeyStep /\ last'.action = "Right" /\ position.scope = "Song" /\ HasSelection(stack)) =>
        /\ requests' # <<>>
        /\ requests'[1] = FindAddRequest(<<Filter("title", SelectedValue(stack)),
                                           Filter("album", position.album)>>)
        /\ Cardinality({i \in 1..Len(requests') : requests'[i].verb = "findadd"}) = 1
        /\ Levels(stack') = Levels(stack)
        /\ position' = position]_vars

C3_Witness ==
    /\ last.action = "Right" /\ last.scope = "Song" /\ last.result = "RenderRequested"
    /\ position.scope = "Song" /\ position.album = Str_j
    /\ status_message = AddedToQueue(Str_jx, Str_j)

\* the prefetch slot holds the preview of the entry selected under the position
FreshPreview ==
    \E o \in prepare_preview(stack, position, library) : o.kind = "Ok" /\ stack.next = o.val

Movements == {"Up", "Down", "UpHalf", "DownHalf", "Top", "Bottom", "Right", "Left"}

\* C4: after Up, Down, UpHalf, DownHalf, Top, Bottom, Right or Left returned
\* successfully, the prefetch slot holds the preview of the entry that is now
\* selected under the position.
C4_SlotFollowsMovement ==
    (last.op = "handle_action" /\ last.action \in Movements /\ last.result = "RenderRequested")
        => FreshPreview

\* a step that is a filter-driven jump: Enter in filter input mode,
\* NextResult or PreviousResult
JumpStep ==
    /\ last'.op = "handle_action"
    /\ \/ filter_input_mode /\ last'.event = Enter
       \/ ~filter_input_mode /\ last'.action \in {"NextResult", "PreviousResult"}

\* C5: when a filter-driven jump (Enter committing a filter, NextResult,
\* PreviousResult) changes the selected entry, the prefetch slot afterwards
\* holds the preview of the newly selected entry.
C5_SlotFollowsJump ==
    [][(JumpStep /\ get_selected(current(stack')) # get_selected(current(stack)))
        => FreshPreview']_vars

\* C6: a successful Right at Album scope with X selected followed by a
\* successful Left is a round trip: Right keeps the root level and makes X the
\* chosen album, and the Left after it leaves the position at Album, one
\* level, that root level with its selection on X, and the slot holding the
\* preview of X.
C6_RoundTrip ==
    [][/\ (KeyStep /\ Descended(last')) =>
            /\ Depth(stack') = 2
            /\ stack'.levels[1] = stack.levels[1]
            /\ position' = PositionSong(SelectedValue(stack))
       /\ (KeyStep /\ Descended(last) /\ last'.action = "Left" /\ last'.result = "RenderRequested") =>
            /\ position' = PositionAlbum
            /\ Levels(stack') = <<stack.levels[1]>>
            /\ SelectedValue(stack') = position.album
            /\ \E o \in Album_fetch(library', position.album) :
                  o.kind = "Ok" /\ stack'.next = Entries_to_listitems(o.val)]_vars

C6_Witness ==
    /\ last.action = "Left" /\ last.result = "RenderRequested" /\ last.after_descend
    /\ current(stack).sel = 2 /\ stack.next # <<>>

\* C7: the stack never has fewer than one or more than two levels, and Left
\* at the root (Album scope, one level) pops nothing: depth, position, the
\* root entries and the selection are as before.
C7_DepthBounds ==
    [][/\ Depth(stack) \in 1..2 /\ Depth(stack') \in 1..2
       /\ (KeyStep /\ last'.action = "Left" /\ Depth(stack) = 1) =>
            /\ Levels(stack') = Levels(stack)
            /\ position' = position
            /\ position'.scope = "Album"]_vars

C7_Witness ==
    /\ last.action = "Left" /\ last.scope = "Album" /\ last.result = "RenderRequested"
    /\ Depth(stack) = 1 /\ current(stack).sel = 3

\* C8: after before_show succeeded on a non-empty album listing the stack has
\* exactly one level, the listed album names as Dir entries in server order
\* with the first one selected, the position is Album and the slot holds the
\* preview of the first album, whatever the state was before.
C8_BeforeShow ==
    (last.op = "before_show" /\ last.result = "Ok" /\ library.albums # <<>>) =>
        /\ Levels(stack) = <<[items |-> MapSeq(library.albums, Dir), sel |-> 1]>>
        /\ position = PositionAlbum
        /\ \E o \in Album_fetch(library, library.albums[1]) :
              o.kind = "Ok" /\ stack.next = Entries_to_listitems(o.val)

C8_Witness ==
    /\ last.op = "before_show" /\ last.result = "Ok" /\ last.scope = "Song"
    /\ library.albums # <<>> /\ Depth(stack) = 1

MatchingIndices(st) ==
    {i \in 1..Len(current(st).items) : Matches(current(st).items[i], st.filter)}

\* C9: on Enter in filter input mode with at least one entry of the top
\* level matching the filter, the selection moves to the first matching entry
\* of the level, wherever it was.
C9_CommitSelectsFirstMatch ==
    [][(last'.op = "handle_action" /\ filter_input_mode /\ last'.event = Enter
        /\ stack.filter.some /\ MatchingIndices(stack) # {})
        => \A i \in MatchingIndices(stack) : get_selected(current(stack')) <= i]_vars

\* the entries a level displays: those matching the filter, all without one
Visible(st) ==
    IF st.filter.some
    THEN SelectSeq(current(st).items, LAMBDA e : Matches(e, st.filter))
    ELSE current(st).items

Items(st) == [i \in 1..Depth(st) |-> st.levels[i].items]

\* a step of searching: any key in filter input mode, or EnterSearch
SearchStep ==
    /\ last'.op = "handle_action"
    /\ filter_input_mode \/ last'.action = "EnterSearch"

\* C10: EnterSearch, typing, Backspace, Enter and Esc leave the entries of
\* every level as they were, and after Esc the filter is none and the level
\* shows its full entry list in its order.
C10_SearchKeepsEntries ==
    [][SearchStep =>
        /\ Items(stack') = Items(stack)
        /\ (filter_input_mode /\ last'.event = Esc) =>
              stack'.filter = NoFilter /\ Visible(stack') = current(stack).items]_vars

C10_Witness ==
    /\ last.op = "handle_action" /\ last.mode /\ last.event = Esc
    /\ stack.filter = NoFilter /\ Len(current(stack).items) = 3 /\ ~filter_input_mode

NoItemError == last'.result = "Err" /\ last'.error = ExpectedSelected

\* a step that is a call of before_show whose listing request was answered
BeforeShowAnswered == last'.op = "before_show" /\ last'.error # ServerError

\* C11 (as claimed): Up, Down, UpHalf, DownHalf, Top, Bottom, Right and Left
\* on an empty top level, and before_show on an empty listing, return the
\* error 'Expected an item to be selected'; Right then sends no request and
\* leaves stack and position unchanged.
C11_EmptyLevelAlwaysErrors ==
    [][/\ (KeyStep /\ last'.action \in Movements /\ ~HasSelection(stack)) => NoItemError
       /\ (KeyStep /\ last'.action = "Right" /\ ~HasSelection(stack)) =>
             requests' = <<>> /\ stack' = stack /\ position' = position
       /\ (BeforeShowAnswered /\ library.albums = <<>>) => NoItemError]_vars

\* C11 (amended): Up, Down, UpHalf, DownHalf, Top, Bottom and Right on an
\* empty top level, and Left when the level on top after its pop is empty,
\* return the error 'Expected an item to be selected' without a request and
\* without aborting; Right then leaves stack and position unchanged.
\* before_show on an empty listing either is answered with no list, sets
\* 'No albums found!' and returns Ok with the stack as it was, or is
\* answered with an empty list and returns that error.
C11_EmptyLevelErrors ==
    [][/\ (KeyStep /\ last'.action \in Movements \ {"Left"} /\ ~HasSelection(stack)) =>
             NoItemError /\ requests' = <<>>
       /\ (KeyStep /\ last'.action = "Right" /\ ~HasSelection(stack)) =>
             stack' = stack /\ position' = position
       /\ (KeyStep /\ last'.action = "Left" /\ ~HasSelection(DirStack_pop(stack))) =>
             NoItemError /\ requests' = <<>>
       /\ (BeforeShowAnswered /\ library.albums = <<>>) =>
             \/ /\ last'.result = "Ok" /\ status_message' = NoAlbumsFound
                /\ stack' = stack /\ position' = position
             \/ NoItemError /\ Levels(stack') = <<NewLevel(<<>>)>>]_vars

C11_Witness ==
    /\ last.op = "handle_action" /\ last.action = "Down"
    /\ last.result = "Err" /\ last.error = ExpectedSelected
    /\ Depth(stack) = 2 /\ ~HasSelection(stack)

\* the items are what prepare_preview makes under the position: titles as
\* Song entries at Album scope, the fields of a song of the chosen album at
\* Song scope; an empty slot holds nothing of any position
ComputedFor(items, pos) ==
    \/ items = <<>>
    \/ pos.scope = "Album" /\ \A i \in 1..Len(items) : items[i].tag = "Song"
    \/ /\ pos.scope = "Song" /\ Len(items) = 2
       /\ items[1].tag = "title" /\ items[2] = ListItem("album", pos.album)

\* C12: in every reachable state, also after a call that returned an error,
\* what the prefetch slot holds was computed for the current position (same
\* scope, same chosen album), never for a position a push or pop superseded.
C12_SlotOfCurrentPosition == ComputedFor(stack.next, position)

\* a step that is Right on a selected entry
RightStep == KeyStep /\ last'.action = "Right" /\ HasSelection(stack)

\* C16: the requests of a descend at Album scope are sent and answered one
\* after the other: first the child listing (titles filtered by album = the
\* selected entry); when a second request is sent the level made from the
\* listing's reply is already pushed, and the request is the preview with
\* filters (title = first entry of the new level, album = the descended
\* album) in that order; there is no third request.
C16_DescendRequestsInOrder ==
    [][(RightStep /\ position.scope = "Album") =>
        /\ Len(requests') \in 1..2
        /\ requests'[1] = ListTagRequest("title", <<Filter("album", SelectedValue(stack))>>)
        /\ Len(requests') = 2 =>
              /\ Depth(stack') = 2 /\ HasSelection(stack')
              /\ \E o \in Album_fetch(library, SelectedValue(stack)) :
                    o.kind = "Ok" /\ current(stack').items = o.val
              /\ requests'[2] = FindRequest(<<Filter("title", current(stack').items[1].value),
                                              Filter("album", SelectedValue(stack))>>)]_vars

C16_Witness ==
    /\ last.action = "Right" /\ last.scope = "Album" /\ last.result = "RenderRequested"
    /\ Len(requests) = 2 /\ requests[2].verb = "find"
    /\ requests[2].filters = <<Filter("title", Str_j), Filter("album", Str_xj)>>

\* a step in which the first request of Right was refused
FirstRequestFailed ==
    RightStep /\ last'.result = "Err" /\ last'.error = ServerError /\ Len(requests') = 1

\* C17: when the child listing of Right at Album scope fails no level is
\* pushed and the position stays Album; when the enqueue of Right at Song
\* scope fails the position stays Song with its album and the status
\* message is not set: Right sets 'added to queue' only past a successful
\* enqueue.
C17_FailedDescendKeepsState ==
    [][/\ FirstRequestFailed =>
            stack' = stack /\ position' = position /\ status_message' = status_message
       /\ (RightStep /\ status_message' # status_message) =>
            /\ position.scope = "Song" /\ Len(requests') = 2
            /\ requests'[1].verb = "findadd" /\ requests'[2].verb = "find"
            /\ status_message' = AddedToQueue(SelectedValue(stack), position.album)]_vars

C17_Witness ==
    /\ last.action = "Right" /\ last.scope = "Song" /\ last.result = "Err"
    /\ Len(requests) = 1 /\ requests[1].verb = "findadd"
    /\ position = PositionSong(Str_j) /\ status_message = NoMessage

\* C18: no sequence of key events and server replies makes the screen abort;
\* a preview request at Song scope answered with no song gives an error or
\* an empty preview.
C18_NeverAborts == last.result # "Panic"

\* a step that is a key press in filter input mode
FilterStep == last'.op = "handle_action" /\ filter_input_mode

\* C19: in filter input mode a character key appends its character to the
\* filter, bound or not, Backspace removes the last character (nothing on an
\* empty filter), and neither changes selection, levels, position or slot or
\* sends a request; only Enter and Esc leave the mode, and no key returns
\* KeyNotHandled.
C19_FilterModeConsumesKeys ==
    [][FilterStep =>
        LET e == last'.event
        IN  /\ last'.result # "KeyNotHandled" /\ last'.action = ""
            /\ requests' = <<>>
            /\ e.kind = "Char" => stack'.filter = SomeFilter(Append(stack.filter.text, e.c))
            /\ e.kind = "Backspace" =>
                  stack'.filter.text =
                     IF stack.filter.text = <<>> THEN <<>>
                     ELSE SubSeq(stack.filter.text, 1, Len(stack.filter.text) - 1)
            /\ e.kind \in {"Char", "Backspace"} =>
                  /\ Levels(stack') = Levels(stack) /\ stack'.next = stack.next
                  /\ position' = position
            /\ filter_input_mode' = (e \notin {Enter, Esc})]_vars

\* C20: in every reachable state filter input mode being active implies
\* that the stack has a filter string for typed characters to go into.
C20_FilterModeHasFilter == filter_input_mode => stack.filter.some

-----------------------------------------------------------------------------
(* Converting the configuration file (config/mod.rs) *)

\* a configuration file is read; it is not converted yet
InitConfig ==
    /\ stack = DirStack_new(<<>>)
    /\ position = PositionAlbum
    /\ filter_input_mode = FALSE
    /\ status_message = NoMessage
    /\ library = Lib0
    /\ requests = <<>>
    /\ keybinds = [navigation |-> invert_map(DefaultNavigation, SomeOrder(CommonAction)),
                   albums |-> invert_map(DefaultAlbums, <<>>)]
    /\ key_file = KeyConfigFile_default
    /\ key_configs = <<>>
    /\ config_file \in ConfigFiles
    /\ config = NoConfig
    /\ last = [op |-> "init", event |-> NoKey, action |-> "", mode |-> FALSE,
               scope |-> "Album", result |-> "Ok", error |-> "", after_descend |-> FALSE]

\* Config::try_from(ConfigFile) when the ui part does not convert: Err
Config_try_from_err ==
    /\ config = NoConfig /\ ~config_file.ui_valid
    /\ config' = ConfigErr
    /\ UNCHANGED <<stack, position, filter_input_mode, status_message, library, requests,
                   keybinds, key_file, key_configs, config_file, last>>

\* Config::try_from(ConfigFile) when the ui part converts: Ok(Config)
Config_try_from_ok ==
    /\ config = NoConfig /\ config_file.ui_valid
    /\ \E keys \in KeyConfigsOf(key_file) :
          /\ config' = Config(config_file.address, config_file.volume_step,
                              status_update_interval_ms(config_file.status_update_interval_ms),
                              keys)
          /\ key_configs' = Append(key_configs, keys)
    /\ UNCHANGED <<stack, position, filter_input_mode, status_message, library, requests,
                   keybinds, key_file, config_file, last>>

NextConfig == Config_try_from_err \/ Config_try_from_ok

SpecConfig == InitConfig /\ [][NextConfig]_vars

-----------------------------------------------------------------------------
(* Properties of the key tables *)

\* the pairs listed in a scope as written, and the actions that list a pair
Listed(bindings) == UNION {Range(bindings[i].keys) : i \in 1..Len(bindings)}
Claimants(bindings, k) ==
    {bindings[i].action : i \in {j \in 1..Len(bindings) : k \in Range(bindings[j].keys)}}
Collides(bindings) == \E k \in Listed(bindings) : Cardinality(Claimants(bindings, k)) > 1
\* the action written last among those that list the pair
LastRegistered(bindings, k) ==
    LET i == CHOOSE i \in 1..Len(bindings) :
                /\ k \in Range(bindings[i].keys)
                /\ \A j \in 1..Len(bindings) : k \in Range(bindings[j].keys) => j <= i
    IN  bindings[i].action
\* every binding as written resolves to its action in the table
AllResolvable(bindings, table) ==
    \A i \in 1..Len(bindings) : \A k \in Range(bindings[i].keys) :
        k \in DOMAIN table /\ table[k] = bindings[i].action

\* C13: every scope table built from the file has as its keys exactly the
\* pairs listed under some action of the scope, maps each to an action that
\* lists it, and when no pair is listed under two actions every binding of
\* the scope as written is resolvable.
C13_InvertMapKeepsBindings ==
    \A n \in 1..Len(key_configs) : \A s \in Scopes :
        LET table == key_configs[n][s]
            bindings == key_file[s]
        IN  /\ DOMAIN table = Listed(bindings)
            /\ \A k \in DOMAIN table : table[k] \in Claimants(bindings, k)
            /\ ~Collides(bindings) => AllResolvable(bindings, table)

C13_Witness ==
    /\ Len(key_configs) = 1
    /\ key_file["navigation"] =
          <<Binding("Down", <<Char("j", "NONE")>>),
            Binding("Up", <<Char("k", "NONE")>>), Binding("Right", <<>>)>>
    /\ key_configs[1]["navigation"][Char("k", "NONE")] = "Up"
    /\ key_configs[1]["navigation"][Char("j", "NONE")] = "Down"

\* C14: a pair claimed by two actions of a scope resolves to the action
\* written last, and every table built from the same file is the same.
C14_LastRegisteredWins ==
    /\ \A n \in 1..Len(key_configs) : \A s \in Scopes :
          \A k \in DOMAIN key_configs[n][s] :
              key_configs[n][s][k] = LastRegistered(key_file[s], k)
    /\ \A n, m \in 1..Len(key_configs) : key_configs[n] = key_configs[m]

\* C15: in the default configuration no pair is claimed by two actions of
\* one scope, every default binding of every scope is resolvable in every
\* table built from it, and no pair is in both the navigation and the global
\* table.
C15_DefaultsDoNotCollide ==
    key_file = KeyConfigFile_default =>
        /\ \A s \in Scopes : ~Collides(key_file[s])
        /\ \A n \in 1..Len(key_configs) :
              /\ \A s \in Scopes : AllResolvable(key_file[s], key_configs[n][s])
              /\ DOMAIN key_configs[n]["navigation"] \cap DOMAIN key_configs[n]["global"] = {}

C15_Witness ==
    /\ key_file = KeyConfigFile_default
    /\ Len(key_configs) = MaxConstructions
    /\ key_configs[1]["navigation"][Key("Esc", "", "NONE")] = "Close"
    /\ key_configs[1]["global"][Key("Right", "", "NONE")] = "NextTab"
    /\ key_configs[1]["queue"][Char("D", "SHIFT")] = "DeleteAll"

-----------------------------------------------------------------------------
(* Properties of the converted configuration *)

\* C21: a Config converted from the file has no status refresh interval
\* when the file has none, and otherwise the larger of the file's value and
\* 100, so never one below 100 ms; its volume step and its address are the
\* file's.
C21_IntervalClampedFromBelow ==
    config.kind = "Ok" =>
        LET given == config_file.status_update_interval_ms
            got == config.status_update_interval_ms
        IN  /\ got.some = given.some
            /\ ~given.some => got = NoInterval
            /\ given.some =>
                  /\ got.v >= 100 /\ got.v >= given.v
                  /\ got.v \in {given.v, 100}
            /\ config.volume_step = config_file.volume_step
            /\ config.address = config_file.address

C21_Witness ==
    /\ config.kind = "Ok"
    /\ config_file.status_update_interval_ms = SomeInterval(99)
    /\ config.status_update_interval_ms = SomeInterval(100)
    /\ config.volume_step = MaxU8

====
